---- MODULE Spec2Model ----
(***************************************************************************)
(* Model of src/actions.py: one run of the drone action executor.          *)
(* A run resolves identity and config, starts the MAVSDK server (the       *)
(* bridge process), connects, applies the CLI parameters, executes one     *)
(* action routine through safe_action, stops the server and exits with     *)
(* RETURN_CODE.  External parties (the bridge process, a foreign process   *)
(* on the gRPC port, the MAVSDK streams and remote calls, the LED          *)
(* controller, the update script) are nondeterministic.                    *)
(***************************************************************************)
EXTENDS Integers, Sequences, FiniteSets, TLC

\* ------------------------------------------------------------------ bounds

\* largest number of entries in the CLI parameter batch (--param ...)
MaxParams == 1
\* largest number of rows in common_params.csv
MaxCommon == 2
\* wait_for_port(timeout=10): failed probes that fit into the timeout
ListenPolls == 2
\* wait_for_drone_connection(timeout=10): clock ticks that make up the timeout
ConnTicks == 1
\* ensure_ready_for_flight: clock ticks that make up the 15 s window
PreflightTicks == 1

\* ------------------------------------------------------------------ text

Digit == {"0", "1", "2", "3", "4", "5", "6", "7", "8", "9"}

DigitVal == [c \in Digit |->
               CASE c = "0" -> 0 [] c = "1" -> 1 [] c = "2" -> 2 [] c = "3" -> 3
                 [] c = "4" -> 4 [] c = "5" -> 5 [] c = "6" -> 6 [] c = "7" -> 7
                 [] c = "8" -> 8 [] c = "9" -> 9]

AllDigits(s) == \A i \in 1..Len(s) : s[i] \in Digit

StripSign(s) == IF Len(s) > 0 /\ s[1] \in {"+", "-"} THEN Tail(s) ELSE s

\* int(str) succeeds: an optional sign and at least one digit
IsIntLiteral(s) == LET u == StripSign(s) IN Len(u) > 0 /\ AllDigits(u)

RECURSIVE NatValue(_)
NatValue(u) == IF u = <<>> THEN 0
               ELSE 10 * NatValue(SubSeq(u, 1, Len(u) - 1)) + DigitVal[u[Len(u)]]

\* int(str) for a string that IsIntLiteral
IntValue(s) == IF Len(s) > 0 /\ s[1] = "-" THEN 0 - NatValue(Tail(s))
               ELSE NatValue(StripSign(s))

\* digits with at most one decimal point and at least one digit
IsMantissa(u) ==
    \/ Len(u) > 0 /\ AllDigits(u)
    \/ \E i \in 1..Len(u) :
          /\ u[i] = "."
          /\ AllDigits(SubSeq(u, 1, i - 1))
          /\ AllDigits(SubSeq(u, i + 1, Len(u)))
          /\ Len(u) > 1

\* float(str) succeeds: sign, mantissa, optional exponent
IsFloatLiteral(s) ==
    LET u == StripSign(s) IN
    \/ IsMantissa(u)
    \/ \E i \in 1..Len(u) :
          /\ u[i] \in {"e", "E"}
          /\ IsMantissa(SubSeq(u, 1, i - 1))
          /\ IsIntLiteral(SubSeq(u, i + 1, Len(u)))

HasDot(s) == \E i \in 1..Len(s) : s[i] = "."

\* ------------------------------------------------------------------ inputs

None == <<>>
Some(v) == <<v>>

RecognizedActions ==
    {"takeoff", "land", "return_rtl", "hold", "kill_terminate", "test",
     "reboot_fc", "reboot_sys", "init_sysid", "apply_common_params",
     "update_code"}

\* --action is a free string: one identifier outside the table stands for all
ActionIds == RecognizedActions \cup {"fly_away"}

\* glob('*.hwID'), base names, in the order glob returns them
HwidListings ==
    {<<>>, << <<"1">> >>, << <<"x", "1">> >>, << <<"2">>, <<"1">> >>}

\* the config csv: absent, or the hw_id column of its rows
ConfigSources ==
    {[present |-> FALSE, rows |-> <<>>],
     [present |-> TRUE, rows |-> << <<"3">> >>],
     [present |-> TRUE, rows |-> << <<"3">>, <<"1">> >>],
     [present |-> TRUE, rows |-> << <<"x">>, <<"1">> >>]}

\* (name, raw value) pairs as they come from --param or common_params.csv:
\* names inside and outside PARAM_TYPES, raw values with and without a point
Entry ==
    {[name |-> "GF_ACTION", raw |-> <<"7">>],
     [name |-> "GF_ACTION", raw |-> <<"3", ".", "5">>],
     [name |-> "GF_MAX_HOR_DIST", raw |-> <<"7">>],
     [name |-> "MPC_XY_CRUISE", raw |-> <<"3", ".", "5">>]}

RECURSIVE Batches(_)
\* ordered mappings name -> raw string with at most n entries (dict: names differ)
Batches(n) ==
    IF n = 0 THEN {<<>>}
    ELSE LET B == Batches(n - 1) IN
         B \cup {Append(b, e) : b \in {x \in B : Len(x) = n - 1}, e \in Entry}

DistinctNames(b) == \A i, j \in 1..Len(b) : b[i].name = b[j].name => i = j

ParamBatches(n) == {b \in Batches(n) : DistinctNames(b)}


\* --------------------------------------------------------- pure functions

\* read_hw_id: the first *.hwID file, its base name as an integer, else None
read_hw_id(files) ==
    IF files = <<>> THEN None
    ELSE IF IsIntLiteral(files[1]) THEN Some(IntValue(files[1]))
    ELSE None

RECURSIVE FirstMatchingRow(_, _)
\* the loop of read_config: int(row['hw_id']) raising ends the scan with None
FirstMatchingRow(rows, hw) ==
    IF rows = <<>> THEN None
    ELSE IF ~IsIntLiteral(Head(rows)) THEN None
    ELSE IF Some(IntValue(Head(rows))) = hw THEN Some(IntValue(Head(rows)))
    ELSE FirstMatchingRow(Tail(rows), hw)

\* read_config: the row of the config file matching HW_ID, else None
read_config(cfg, hw) ==
    IF ~cfg.present THEN None ELSE FirstMatchingRow(cfg.rows, hw)

\* stop_mavsdk_server(handle): the states the handle's process can be left in.
\* A live process gets terminate(), and kill() when wait(timeout=5) expires.
stop_mavsdk_server(b) ==
    IF b = "live" THEN {"terminated", "killed"} ELSE {b}

\* Popen.terminate() alone, as in the listen-timeout branch of
\* start_mavsdk_server: the process exits, or ignores the signal and lives on
terminate_only(b) ==
    IF b = "live" THEN {"terminated", "live"} ELSE {b}

\* ------------------------------------------------------------------- state

VARIABLES
    action,        \* --action
    hwidFiles,     \* the *.hwID files in the working directory
    config,        \* the config csv
    parameters,    \* --param pairs, in order
    common,        \* common_params.csv
    reboot_after,  \* --reboot_after
    branch,        \* --branch given
    pc,            \* position of the run
    HW_ID,         \* global HW_ID
    RETURN_CODE,   \* global RETURN_CODE, the failure flag
    exitCode,      \* status the process exited with, None while it runs
    exc,           \* exception in flight
    foreign,       \* a process of somebody else bound to the gRPC port
    signals,       \* signals sent to the foreign process
    bridge,        \* the mavsdk_server process spawned by this run
    listening,     \* the bridge accepts connections on the gRPC port
    spawned,       \* number of Popen calls that created a process
    teardowns,     \* number of stop_mavsdk_server calls
    connects,      \* number of drone.connect calls
    stream,        \* the MAVSDK stream being consumed: live or hung
    clock,         \* time elapsed in the current bounded wait
    caller,        \* set_parameters: who passed the batch
    pidx,          \* set_parameters: index of the next entry
    ip,            \* action routine: index of the next operation
    gps_ok,        \* ensure_ready_for_flight: latched flag
    home_ok,       \* ensure_ready_for_flight: latched flag
    routines,      \* number of action routines entered
    calls,         \* remote calls issued to the drone, in order
    script,        \* the update script: command line and outcome, once run
    faults,        \* what went wrong in the environment during the run
    outBuf,        \* lines waiting in the bridge's stdout pipe
    errBuf,        \* lines waiting in the bridge's stderr pipe
    eof,           \* the bridge closed its ends of both pipes
    drain,         \* log_mavsdk_output: the loop the task is in
    written        \* lines the bridge has written so far

inputs == <<action, hwidFiles, config, parameters, common, reboot_after, branch>>

\* position inside set_parameters and inside the action routine
cursor == <<caller, pidx, ip, script>>

procs == <<foreign, signals, bridge, listening, spawned, teardowns>>

waits == <<stream, clock, gps_ok, home_ok>>

\* the output pipes of the bridge and the task that reads them
pipes == <<outBuf, errBuf, eof, drain, written>>

vars == <<action, hwidFiles, config, parameters, common, reboot_after, branch,
          pc, HW_ID, RETURN_CODE, exitCode, exc, foreign, signals, bridge,
          listening, spawned, teardowns, connects, stream, clock, caller,
          pidx, ip, gps_ok, home_ok, routines, calls, script, faults,
          outBuf, errBuf, eof, drain, written>>

CommonSources ==
    {[present |-> FALSE, rows |-> <<>>]}
      \cup {[present |-> TRUE, rows |-> b] : b \in ParamBatches(MaxCommon)}

Init ==
    /\ action \in ActionIds
    \* files and flags that an action never reads do not vary for it
    /\ hwidFiles \in IF action = "update_code" THEN {<<>>} ELSE HwidListings
    /\ config \in IF action \in {"update_code", "init_sysid"}
                  THEN {[present |-> FALSE, rows |-> <<>>]}
                  ELSE ConfigSources
    /\ parameters \in IF action = "update_code" THEN {<<>>}
                      ELSE ParamBatches(MaxParams)
    /\ common \in IF action = "apply_common_params" THEN CommonSources
                  ELSE {[present |-> FALSE, rows |-> <<>>]}
    /\ reboot_after \in IF action = "apply_common_params" THEN BOOLEAN ELSE {FALSE}
    /\ branch \in IF action = "update_code" THEN BOOLEAN ELSE {FALSE}
    /\ pc = "start"
    /\ HW_ID = None
    /\ RETURN_CODE = 0
    /\ exitCode = None
    /\ exc = "none"
    /\ foreign \in {"absent", "live"}
    /\ signals = <<>>
    /\ bridge = "none"
    /\ listening = FALSE
    /\ spawned = 0
    /\ teardowns = 0
    /\ connects = 0
    /\ stream = "live"
    /\ clock = 0
    /\ caller = "perform_action"
    /\ pidx = 1
    /\ ip = 1
    /\ script = [rc |-> "none", command |-> <<>>]
    /\ gps_ok = FALSE
    /\ home_ok = FALSE
    /\ routines = 0
    /\ calls = <<>>
    /\ faults = {}
    /\ outBuf = 0
    /\ errBuf = 0
    /\ eof = FALSE
    /\ drain = "stdout"
    /\ written = 0

\* fail(): RETURN_CODE = 1
fail == 1

\* ------------------------------------------- perform_action: resolution

\* perform_action with the `if not drone_config` check left out
perform_action_without_config_check ==
    /\ pc = "start"
    /\ IF action = "update_code"
       THEN /\ pc' = "update_code"
            /\ UNCHANGED <<HW_ID, RETURN_CODE>>
       ELSE LET hw == read_hw_id(hwidFiles) IN
            /\ HW_ID' = hw
            /\ IF action # "init_sysid" /\ hw = None
               THEN RETURN_CODE' = fail /\ pc' = "returned"
               ELSE UNCHANGED RETURN_CODE /\ pc' = "start_mavsdk_server"
    /\ UNCHANGED <<inputs, pipes, procs, waits, exitCode, exc, connects, cursor,
                   routines, calls, faults>>

\* perform_action, lines 319-338: update_code shortcut, read_hw_id, read_config
perform_action ==
    /\ pc = "start"
    /\ IF action = "update_code"
       THEN /\ pc' = "update_code"
            /\ UNCHANGED <<HW_ID, RETURN_CODE>>
       ELSE LET hw == read_hw_id(hwidFiles) IN
            /\ HW_ID' = hw
            /\ IF action # "init_sysid" /\ hw = None
               THEN RETURN_CODE' = fail /\ pc' = "returned"
               ELSE IF action # "init_sysid" /\ read_config(config, hw) = None
               THEN RETURN_CODE' = fail /\ pc' = "returned"
               ELSE UNCHANGED RETURN_CODE /\ pc' = "start_mavsdk_server"
    /\ UNCHANGED <<inputs, pipes, procs, waits, exitCode, exc, connects, cursor,
                   routines, calls, faults>>

\* ------------------------------------------------- start_mavsdk_server

\* check_mavsdk_server_running that reports a process whatever it finds
check_mavsdk_server_running_always(f) == {TRUE}

\* check_mavsdk_server_running, lines 107-119: the answers it can give when
\* the process bound to the port is f. A process whose net_connections call
\* raises is skipped (lines 117-118), so a live one can go unreported.
check_mavsdk_server_running(f) ==
    IF f = "live" THEN {TRUE, FALSE} ELSE {FALSE}

\* start_mavsdk_server, lines 260-273: check_mavsdk_server_running and the
\* eviction of the process found on the gRPC port
start_mavsdk_server_evict ==
    /\ pc = "start_mavsdk_server"
    /\ \E is_running \in check_mavsdk_server_running(foreign) :
          IF ~is_running
          THEN \* line 261: nothing to evict
               /\ pc' = "find_mavsdk_server"
               /\ UNCHANGED <<foreign, signals, exc, faults>>
          ELSE \/ \* psutil.NoSuchProcess: the process went away by itself
                  /\ foreign' = "gone"
                  /\ pc' = "find_mavsdk_server"
                  /\ UNCHANGED <<signals, exc, faults>>
               \/ \* terminate(), exited within 5 s
                  /\ foreign' = "terminated"
                  /\ signals' = signals \o <<"terminate">>
                  /\ pc' = "find_mavsdk_server"
                  /\ UNCHANGED <<exc, faults>>
               \/ \* terminate(), TimeoutExpired, kill(), wait()
                  /\ foreign' = "killed"
                  /\ signals' = signals \o <<"terminate", "kill">>
                  /\ pc' = "find_mavsdk_server"
                  /\ UNCHANGED <<exc, faults>>
               \/ \* terminate() raises AccessDenied: not caught in
                  \* start_mavsdk_server
                  /\ exc' = "Exception"
                  /\ faults' = faults \cup {"evict"}
                  /\ pc' = "raised"
                  /\ UNCHANGED <<foreign, signals>>
    /\ UNCHANGED <<inputs, pipes, bridge, listening, spawned, teardowns, waits, HW_ID,
                   RETURN_CODE, exitCode, connects, cursor, routines, calls>>

\* start_mavsdk_server, lines 275-279: the executable is found or the run exits
find_mavsdk_server ==
    /\ pc = "find_mavsdk_server"
    /\ \/ /\ pc' = "Popen"
          /\ UNCHANGED <<RETURN_CODE, exc, faults>>
       \/ /\ RETURN_CODE' = fail
          /\ exc' = "SystemExit"
          /\ faults' = faults \cup {"no_executable"}
          /\ pc' = "raised"
    /\ UNCHANGED <<inputs, pipes, procs, waits, HW_ID, exitCode, connects, cursor,
                   routines, calls>>

\* start_mavsdk_server, lines 283-289 and 299-302: spawn the bridge process
Popen ==
    /\ pc = "Popen"
    /\ \/ /\ bridge' = "live"
          /\ spawned' = spawned + 1
          /\ clock' = 0
          /\ pc' = "wait_for_port"
          /\ UNCHANGED <<RETURN_CODE, exc, faults>>
       \/ \* Popen raises: except Exception, fail(), sys.exit(1)
          /\ RETURN_CODE' = fail
          /\ exc' = "SystemExit"
          /\ faults' = faults \cup {"spawn"}
          /\ pc' = "raised"
          /\ UNCHANGED <<bridge, spawned, clock>>
    /\ UNCHANGED <<inputs, pipes, foreign, signals, listening, teardowns, stream,
                   gps_ok, home_ok, HW_ID, exitCode, connects, cursor,
                   routines, calls>>

\* the bridge process opens its gRPC port
BridgeListens ==
    /\ pc = "wait_for_port"
    /\ bridge = "live"
    /\ ~listening
    /\ listening' = TRUE
    /\ UNCHANGED <<inputs, pipes, foreign, signals, bridge, spawned, teardowns, waits,
                   pc, HW_ID, RETURN_CODE, exitCode, exc, connects, cursor,
                   routines, calls, faults>>

\* start_mavsdk_server with the result of wait_for_port ignored: the handle
\* is returned after the timeout as well
wait_for_port_result_ignored ==
    /\ pc = "wait_for_port"
    /\ \/ /\ clock < ListenPolls
          /\ listening
          /\ clock' = 0
          /\ pc' = "connect"
          /\ UNCHANGED <<bridge, RETURN_CODE, exc, faults>>
       \/ /\ clock < ListenPolls
          /\ ~listening
          /\ clock' = clock + 1
          /\ UNCHANGED <<pc, bridge, RETURN_CODE, exc, faults>>
       \/ /\ clock >= ListenPolls
          /\ faults' = faults \cup {"listen_timeout"}
          /\ clock' = 0
          /\ pc' = "connect"
          /\ UNCHANGED <<bridge, RETURN_CODE, exc>>
    /\ UNCHANGED <<inputs, pipes, foreign, signals, listening, spawned, teardowns,
                   stream, gps_ok, home_ok, HW_ID, exitCode, connects, cursor,
                   routines, calls>>

\* wait_for_port and lines 291-298 of start_mavsdk_server
wait_for_port ==
    /\ pc = "wait_for_port"
    /\ \/ \* create_connection succeeds: return True, the handle is returned
          /\ clock < ListenPolls
          /\ listening
          /\ clock' = 0
          /\ pc' = "connect"
          /\ UNCHANGED <<bridge, RETURN_CODE, exc, faults>>
       \/ \* connection refused: sleep and probe again
          /\ clock < ListenPolls
          /\ ~listening
          /\ clock' = clock + 1
          /\ UNCHANGED <<pc, bridge, RETURN_CODE, exc, faults>>
       \/ \* timeout: return False; terminate(), fail(), sys.exit(1)
          /\ clock >= ListenPolls
          /\ bridge' \in terminate_only(bridge)
          /\ RETURN_CODE' = fail
          /\ exc' = "SystemExit"
          /\ faults' = faults \cup {"listen_timeout"}
          /\ pc' = "raised"
          /\ clock' = 0
    /\ UNCHANGED <<inputs, pipes, foreign, signals, listening, spawned, teardowns,
                   stream, gps_ok, home_ok, HW_ID, exitCode, connects, cursor,
                   routines, calls>>

\* ------------------------------------------ perform_action: connection

\* perform_action going from drone.connect straight to the parameters
connect_without_wait ==
    /\ pc = "connect"
    /\ connects' = connects + 1
    /\ \/ /\ pc' = "set_parameters"
          /\ clock' = 0
          /\ stream' = "live"
          /\ UNCHANGED <<RETURN_CODE, bridge, teardowns, faults>>
       \/ /\ RETURN_CODE' = fail
          /\ bridge' \in stop_mavsdk_server(bridge)
          /\ teardowns' = teardowns + 1
          /\ faults' = faults \cup {"connect"}
          /\ pc' = "returned"
          /\ UNCHANGED <<clock, stream>>
    /\ UNCHANGED <<inputs, pipes, foreign, signals, listening, spawned, gps_ok,
                   home_ok, HW_ID, exitCode, exc, cursor, routines, calls>>

\* perform_action, lines 351-359: drone.connect
connect ==
    /\ pc = "connect"
    /\ connects' = connects + 1
    /\ \/ /\ pc' = "wait_for_drone_connection"
          /\ clock' = 0
          /\ stream' = "live"
          /\ UNCHANGED <<RETURN_CODE, bridge, teardowns, faults>>
       \/ \* connect raises: fail(), stop_mavsdk_server, return
          /\ RETURN_CODE' = fail
          /\ bridge' \in stop_mavsdk_server(bridge)
          /\ teardowns' = teardowns + 1
          /\ faults' = faults \cup {"connect"}
          /\ pc' = "returned"
          /\ UNCHANGED <<clock, stream>>
    /\ UNCHANGED <<inputs, pipes, foreign, signals, listening, spawned, gps_ok,
                   home_ok, HW_ID, exitCode, exc, cursor, routines, calls>>

\* (the clock of a wait is local to it: it reads 0 again once the wait is over)
\* time passes while the run waits for the next event of a stream
Tick ==
    /\ \/ pc = "wait_for_drone_connection" /\ clock <= ConnTicks
       \/ pc = "ensure_ready_for_flight" /\ clock <= PreflightTicks
    /\ clock' = clock + 1
    /\ UNCHANGED <<inputs, pipes, procs, stream, gps_ok, home_ok, pc, HW_ID,
                   RETURN_CODE, exitCode, exc, connects, cursor, routines,
                   calls, faults>>

\* the stream being consumed stops delivering events
StreamHangs ==
    /\ pc \in {"wait_for_drone_connection", "ensure_ready_for_flight"}
    /\ stream = "live"
    /\ stream' = "hung"
    /\ UNCHANGED <<inputs, pipes, procs, clock, gps_ok, home_ok, pc, HW_ID,
                   RETURN_CODE, exitCode, exc, connects, cursor, routines,
                   calls, faults>>

\* perform_action with the result of the connection wait thrown away
connection_result_ignored(ok) ==
    /\ pc' = "set_parameters"
    /\ pidx' = 1
    /\ UNCHANGED <<RETURN_CODE, bridge, teardowns>>

\* perform_action, lines 362-366: go on when wait_for_drone_connection
\* returned True; fail(), stop_mavsdk_server and return when it returned
\* False or None
connection_result(ok) ==
    IF ok THEN /\ pc' = "set_parameters"
               /\ pidx' = 1
               /\ UNCHANGED <<RETURN_CODE, bridge, teardowns>>
    ELSE /\ RETURN_CODE' = fail
         /\ bridge' \in stop_mavsdk_server(bridge)
         /\ teardowns' = teardowns + 1
         /\ pc' = "returned"
         /\ UNCHANGED pidx

\* wait_for_drone_connection, lines 422-428: one event of
\* drone.core.connection_state(); clock is time.time() - start when it is
\* handled
wait_for_drone_connection ==
    /\ pc = "wait_for_drone_connection"
    /\ stream = "live"
    /\ \/ \* state.is_connected: return True, whatever the time is (line 423
          \* comes before the test of the time, line 426)
          /\ connection_result(TRUE)
          /\ clock' = 0
          /\ UNCHANGED <<exc, faults>>
       \/ \* not connected, within the timeout: sleep(0.5), next event
          /\ clock <= ConnTicks
          /\ clock' = clock + 1
          /\ UNCHANGED <<pc, pidx, RETURN_CODE, exc, bridge, teardowns, faults>>
       \/ \* not connected, timeout exceeded: return False
          /\ clock > ConnTicks
          /\ connection_result(FALSE)
          /\ faults' = faults \cup {"conn_timeout"}
          /\ clock' = 0
          /\ UNCHANGED exc
       \/ \* the stream ends: the loop falls through, None is returned
          /\ connection_result(FALSE)
          /\ faults' = faults \cup {"conn_end"}
          /\ clock' = 0
          /\ UNCHANGED exc
       \/ \* the stream raises: nothing in perform_action catches it
          /\ exc' = "Exception"
          /\ faults' = faults \cup {"conn_raise"}
          /\ pc' = "raised"
          /\ clock' = 0
          /\ UNCHANGED <<pidx, RETURN_CODE, bridge, teardowns>>
    /\ UNCHANGED <<inputs, pipes, foreign, signals, listening, spawned, stream,
                   gps_ok, home_ok, HW_ID, exitCode, connects, caller, ip,
                   script, routines, calls>>


\* ------------------------------------------------- parameter application

\* PARAM_TYPES
PARAM_TYPES ==
    [n \in {"COM_RCL_EXCEPT", "GF_ACTION", "GF_MAX_HOR_DIST", "GF_MAX_VER_DIST"}
       |-> IF n \in {"COM_RCL_EXCEPT", "GF_ACTION"} THEN "int" ELSE "float"]

\* PARAM_TYPES.get(param_name)
expected_type(name) ==
    IF name \in DOMAIN PARAM_TYPES THEN PARAM_TYPES[name] ELSE "None"

\* parse_param_value looking at the decimal point before the table
resolved_type_point_first(raw, name) ==
    IF HasDot(raw) THEN "float"
    ELSE IF expected_type(name) = "float" THEN "float"
    ELSE "int"

\* the type parse_param_value converts to
resolved_type(raw, name) ==
    IF expected_type(name) = "int" THEN "int"
    ELSE IF expected_type(name) = "float" THEN "float"
    ELSE IF HasDot(raw) THEN "float"
    ELSE "int"

\* parse_param_value: the resolved type, or ValueError when int()/float() raises
parse_param_value(raw, name) ==
    LET t == resolved_type(raw, name) IN
    IF t = "int"
    THEN IF IsIntLiteral(raw) THEN "int" ELSE "ValueError"
    ELSE IF IsFloatLiteral(raw) THEN "float" ELSE "ValueError"

\* the batch set_parameters iterates over
CurBatch == IF caller = "perform_action" THEN parameters ELSE common.rows

\* which batch a set call belongs to
BatchTag == IF caller = "perform_action" THEN "cli" ELSE "common"

SetCall(type, name, by) ==
    [op |-> IF type = "int" THEN "set_param_int" ELSE "set_param_float",
     name |-> name, by |-> by]

\* set_parameters giving up the batch at the first entry that fails
abort_batch(i, n) == n + 1

\* where set_parameters resumes after an entry that failed
next_after_failure(i, n) == i + 1

\* set_parameters: the body of the loop for one entry
set_parameters ==
    /\ pc = "set_parameters"
    /\ pidx <= Len(CurBatch)
    /\ LET e == CurBatch[pidx]
           t == parse_param_value(e.raw, e.name)
       IN
       \/ \* parse_param_value raises ValueError: no remote call, fail()
          /\ t = "ValueError"
          /\ RETURN_CODE' = fail
          /\ faults' = faults \cup {"param_parse"}
          /\ pidx' = next_after_failure(pidx, Len(CurBatch))
          /\ UNCHANGED calls
       \/ \* the remote set call succeeds
          /\ t # "ValueError"
          /\ calls' = Append(calls, SetCall(t, e.name, BatchTag))
          /\ pidx' = pidx + 1
          /\ UNCHANGED <<RETURN_CODE, faults>>
       \/ \* the remote set call raises: fail(), next entry
          /\ t # "ValueError"
          /\ calls' = Append(calls, SetCall(t, e.name, BatchTag))
          /\ RETURN_CODE' = fail
          /\ faults' = faults \cup {"param_remote"}
          /\ pidx' = next_after_failure(pidx, Len(CurBatch))
    /\ UNCHANGED <<inputs, pipes, procs, waits, pc, HW_ID, exitCode, exc, connects,
                   caller, ip, script, routines>>

\* perform_action going to the teardown when set_parameters set the flag
set_parameters_return_stops ==
    /\ pc = "set_parameters"
    /\ pidx > Len(CurBatch)
    /\ IF caller = "perform_action"
       THEN pc' = (IF RETURN_CODE = 1 THEN "finally" ELSE "dispatch")
            /\ UNCHANGED ip
       ELSE pc' = "routine" /\ ip' = ip + 1
    /\ UNCHANGED <<inputs, pipes, procs, waits, HW_ID, RETURN_CODE, exitCode, exc,
                   connects, caller, pidx, script, routines, calls, faults>>

\* set_parameters returns: to perform_action (line 372) or into the routine
set_parameters_return ==
    /\ pc = "set_parameters"
    /\ pidx > Len(CurBatch)
    /\ IF caller = "perform_action"
       THEN pc' = "dispatch" /\ UNCHANGED ip
       ELSE pc' = "routine" /\ ip' = ip + 1
    /\ UNCHANGED <<inputs, pipes, procs, waits, HW_ID, RETURN_CODE, exitCode, exc,
                   connects, caller, pidx, script, routines, calls, faults>>


\* --------------------------------------------------------- action routines
\* A routine is the sequence of its operations that can raise or act on the
\* outside (sleeps and log lines are left out).  Consecutive LED calls with
\* nothing between them form one "leds" operation: any of them may raise.

Leds == [k |-> "leds", name |-> ""]
Call(n) == [k |-> "call", name |-> n]
Op(k) == [k |-> k, name |-> ""]

\* try |-> index of the first operation inside the routine's try statement
\* (0: the except clauses only re-raise and there is no finally);
\* catches |-> the except clause swallows the error and calls fail();
\* handler |-> the except clause makes LED calls after fail()

\* takeoff arming before it sets the altitude
takeoff_arm_first ==
    [ops |-> <<Op("ensure_ready_for_flight"), Leds, Call("arm"),
               Call("set_takeoff_altitude"), Leds, Call("takeoff"), Leds>>,
     try |-> 0, catches |-> FALSE, handler |-> FALSE]

\* takeoff, lines 581-613
takeoff ==
    [ops |-> <<Op("ensure_ready_for_flight"), Leds, Call("set_takeoff_altitude"),
               Call("arm"), Leds, Call("takeoff"), Leds>>,
     try |-> 0, catches |-> FALSE, handler |-> FALSE]

\* land, lines 615-648
land ==
    [ops |-> <<Leds, Call("hold"), Leds, Call("land"), Leds>>,
     try |-> 0, catches |-> FALSE, handler |-> FALSE]

\* return_rtl, lines 650-682
return_rtl ==
    [ops |-> <<Leds, Call("hold"), Leds, Call("return_to_launch"), Leds>>,
     try |-> 0, catches |-> FALSE, handler |-> FALSE]

\* kill_terminate, lines 684-712
kill_terminate ==
    [ops |-> <<Leds, Call("terminate"), Leds>>,
     try |-> 0, catches |-> FALSE, handler |-> FALSE]

\* hold, lines 714-732
hold ==
    [ops |-> <<Leds, Call("hold"), Leds>>,
     try |-> 0, catches |-> FALSE, handler |-> FALSE]

\* test, lines 734-757: line 743 reads the name `white`, which nothing defines
test ==
    [ops |-> <<Leds, Call("arm"), Op("undefined_name"), Leds, Call("disarm"),
               Leds>>,
     try |-> 0, catches |-> FALSE, handler |-> FALSE]

\* reboot, lines 759-788
reboot(fc_flag, sys_flag) ==
    [ops |-> <<Leds>>
               \o (IF fc_flag THEN <<Call("reboot"), Leds>> ELSE <<>>)
               \o (IF sys_flag THEN <<Leds, Op("reboot_system")>> ELSE <<>>)
               \o <<Leds>>,
     try |-> 0, catches |-> FALSE, handler |-> FALSE]

\* init_sysid, lines 855-901: the finally clause turns the LED off
init_sysid ==
    [ops |-> <<Op("check_hw_id"), Leds, Call("set_param_int"), Leds,
               Call("reboot"), Leds>>,
     try |-> 2, catches |-> FALSE, handler |-> FALSE]

\* apply_common_params, lines 497-553
apply_common_params(reboot_flag) ==
    [ops |-> <<Leds, Op("isfile"), Op("set_parameters"), Leds>>
               \o (IF reboot_flag THEN <<Call("reboot"), Leds>> ELSE <<>>),
     try |-> 3, catches |-> TRUE, handler |-> FALSE]

\* update_code, lines 805-849
update_code ==
    [ops |-> <<Leds, Op("run_script"), Leds>>,
     try |-> 2, catches |-> TRUE, handler |-> TRUE]

\* perform_action, lines 374-404: the routine of each action identifier
RoutineOf(a) ==
    CASE a = "takeoff" -> takeoff
      [] a = "land" -> land
      [] a = "return_rtl" -> return_rtl
      [] a = "hold" -> hold
      [] a = "kill_terminate" -> kill_terminate
      [] a = "test" -> test
      [] a = "reboot_fc" -> reboot(TRUE, FALSE)
      [] a = "reboot_sys" -> reboot(FALSE, TRUE)
      [] a = "init_sysid" -> init_sysid
      [] a = "apply_common_params" -> apply_common_params(reboot_after)
      [] a = "update_code" -> update_code

Routine == RoutineOf(action)

CurOp == Routine.ops[ip]

AtOp(k) == pc = "routine" /\ ip <= Len(Routine.ops) /\ CurOp.k = k

\* the parameter name of a routine's set_param_int call
CallArg(n) == IF n = "set_param_int" THEN "MAV_SYS_ID" ELSE ""

\* An operation of the routine raises e: a try with a swallowing except clause
\* calls fail(), a try with a finally clause runs it, anything else leaves
\* the routine at once.
Raise(e) ==
    IF Routine.try # 0 /\ ip >= Routine.try
    THEN IF Routine.catches
         THEN /\ RETURN_CODE' = fail
              /\ exc' = "none"
              /\ pc' = IF Routine.handler THEN "routine_except"
                       ELSE "routine_finally"
         ELSE /\ exc' = e
              /\ pc' = "routine_finally"
              /\ UNCHANGED RETURN_CODE
    ELSE /\ exc' = e
         /\ pc' = "routine_return"
         /\ UNCHANGED RETURN_CODE

\* the operation completed: on to the next one
Advance ==
    /\ ip' = ip + 1
    /\ UNCHANGED <<pc, exc, RETURN_CODE>>


\* ------------------------------------------------------ perform_action: run

\* update_code(branch) is entered without safe_action (line 320)
enter_update_code ==
    /\ pc = "update_code"
    /\ pc' = "routine"
    /\ ip' = 1
    /\ UNCHANGED <<inputs, pipes, procs, waits, HW_ID, RETURN_CODE, exitCode, exc,
                   connects, caller, pidx, script, routines, calls, faults>>

\* perform_action, lines 373-407: the if/elif chain over the action identifier
dispatch ==
    /\ pc = "dispatch"
    /\ \/ \* safe_action(func, ...)
          /\ action \in RecognizedActions
          /\ routines' = routines + 1
          /\ ip' = 1
          /\ pc' = "routine"
          /\ UNCHANGED RETURN_CODE
       \/ \* else: "Invalid action specified", fail()
          /\ action \notin RecognizedActions
          /\ RETURN_CODE' = fail
          /\ pc' = "finally"
          /\ UNCHANGED <<routines, ip>>
    /\ UNCHANGED <<inputs, pipes, procs, waits, HW_ID, exitCode, exc, connects,
                   caller, pidx, script, calls, faults>>

\* led_controller.set_color / turn_off: the calls return, or one raises
status_sink ==
    /\ AtOp("leds")
    /\ \/ Advance /\ UNCHANGED faults
       \/ Raise("Exception") /\ faults' = faults \cup {"led"} /\ UNCHANGED ip
    /\ UNCHANGED <<inputs, pipes, procs, waits, HW_ID, exitCode, connects, caller,
                   pidx, script, routines, calls>>

\* a remote call whose failure is logged and the routine goes on
remote_call_failure_ignored ==
    /\ AtOp("call")
    /\ calls' = Append(calls, [op |-> CurOp.name, name |-> CallArg(CurOp.name),
                               by |-> action])
    /\ \/ Advance /\ UNCHANGED faults
       \/ Advance /\ faults' = faults \cup {"remote"}
    /\ UNCHANGED <<inputs, pipes, procs, waits, HW_ID, exitCode, connects, caller,
                   pidx, script, routines>>

\* await drone.action.<name>() / drone.param.set_param_int("MAV_SYS_ID", HW_ID)
remote_call ==
    /\ AtOp("call")
    /\ calls' = Append(calls, [op |-> CurOp.name, name |-> CallArg(CurOp.name),
                               by |-> action])
    /\ \/ Advance /\ UNCHANGED faults
       \/ \E e \in {"ActionError", "Exception"} :
             Raise(e) /\ faults' = faults \cup {"remote"} /\ UNCHANGED ip
    /\ UNCHANGED <<inputs, pipes, procs, waits, HW_ID, exitCode, connects, caller,
                   pidx, script, routines>>

\* test, line 743: evaluating `white` raises NameError
undefined_name ==
    /\ AtOp("undefined_name")
    /\ Raise("Exception")
    /\ UNCHANGED <<inputs, pipes, procs, waits, HW_ID, exitCode, connects, cursor,
                   routines, calls, faults>>

\* init_sysid without the `if HW_ID is None` guard
check_hw_id_left_out ==
    /\ AtOp("check_hw_id")
    /\ Advance
    /\ UNCHANGED <<inputs, pipes, procs, waits, HW_ID, exitCode, connects, caller,
                   pidx, script, routines, calls, faults>>

\* init_sysid, lines 865-866
check_hw_id ==
    /\ AtOp("check_hw_id")
    /\ IF HW_ID = None THEN Raise("Exception") /\ UNCHANGED ip ELSE Advance
    /\ UNCHANGED <<inputs, pipes, procs, waits, HW_ID, exitCode, connects, caller,
                   pidx, script, routines, calls, faults>>

\* apply_common_params, lines 517-520 and 523-533
isfile ==
    /\ AtOp("isfile")
    /\ IF common.present
       THEN Advance
       ELSE /\ RETURN_CODE' = fail
            /\ pc' = "routine_return"
            /\ UNCHANGED <<ip, exc>>
    /\ UNCHANGED <<inputs, pipes, procs, waits, HW_ID, exitCode, connects, caller,
                   pidx, script, routines, calls, faults>>

\* apply_common_params, line 533: await set_parameters(drone, common_params)
call_set_parameters ==
    /\ AtOp("set_parameters")
    /\ caller' = "apply_common_params"
    /\ pidx' = 1
    /\ pc' = "set_parameters"
    /\ UNCHANGED <<inputs, pipes, procs, waits, HW_ID, RETURN_CODE, exitCode, exc,
                   connects, ip, script, routines, calls, faults>>

\* reboot_system, lines 794-798: the reboot request sent to the session
\* manager of the host
DbusReboot ==
    [op |-> "dbus-send", name |-> "org.freedesktop.login1.Manager.Reboot",
     by |-> "reboot_system"]

\* reboot_system calling fail() when dbus-send exits nonzero
nonzero_dbus_exit_fails(rc) == fail

\* reboot_system, lines 799-803: what a nonzero exit of dbus-send makes of
\* the failure flag rc: an error line is logged and nothing else
nonzero_dbus_exit(rc) == rc

\* reboot_system, lines 790-803: dbus-send exits 0, exits nonzero (logged
\* only), or cannot be started
reboot_system ==
    /\ AtOp("reboot_system")
    /\ \/ /\ calls' = Append(calls, DbusReboot)
          /\ ip' = ip + 1
          /\ UNCHANGED <<pc, exc, RETURN_CODE, faults>>
       \/ /\ calls' = Append(calls, DbusReboot)
          /\ ip' = ip + 1
          /\ RETURN_CODE' = nonzero_dbus_exit(RETURN_CODE)
          /\ faults' = faults \cup {"dbus_nonzero"}
          /\ UNCHANGED <<pc, exc>>
       \/ /\ Raise("Exception")
          /\ faults' = faults \cup {"dbus_raise"}
          /\ UNCHANGED <<ip, calls>>
    /\ UNCHANGED <<inputs, pipes, procs, waits, HW_ID, exitCode, connects, caller,
                   pidx, script, routines>>

\* update_code, lines 816-819: the command line of the update script; b tells
\* whether --branch was given
command(b) ==
    <<"tools/update_repo_ssh.sh">> \o (IF b THEN <<"branch">> ELSE <<>>)

\* update_code, lines 816-829: the update script exits 0, exits nonzero
\* (fail()), or cannot be started
run_script ==
    /\ AtOp("run_script")
    /\ \/ /\ script' = [rc |-> "zero", command |-> command(branch)]
          /\ Advance
          /\ UNCHANGED faults
       \/ /\ script' = [rc |-> "nonzero", command |-> command(branch)]
          /\ RETURN_CODE' = fail
          /\ ip' = ip + 1
          /\ faults' = faults \cup {"script_nonzero"}
          /\ UNCHANGED <<pc, exc>>
       \/ /\ script' = [rc |-> "raised", command |-> command(branch)]
          /\ Raise("Exception")
          /\ faults' = faults \cup {"script_raise"}
          /\ UNCHANGED ip
    /\ UNCHANGED <<inputs, pipes, procs, waits, HW_ID, exitCode, connects, caller,
                   pidx, routines, calls>>


\* takeoff, line 587: ensure_ready_for_flight starts its clock and its flags
enter_ensure_ready_for_flight ==
    /\ AtOp("ensure_ready_for_flight")
    /\ pc' = "ensure_ready_for_flight"
    /\ clock' = 0
    /\ stream' = "live"
    /\ gps_ok' = FALSE
    /\ home_ok' = FALSE
    /\ UNCHANGED <<inputs, pipes, procs, HW_ID, RETURN_CODE, exitCode, exc, connects,
                   cursor, routines, calls, faults>>

\* takeoff with the result of the preflight wait thrown away
preflight_result_ignored(ok) ==
    /\ pc' = "routine"
    /\ ip' = ip + 1
    /\ UNCHANGED exc

\* takeoff, lines 587-588: go on when ensure_ready_for_flight returned True,
\* raise Exception when it returned False or None
preflight_result(ok) ==
    IF ok THEN /\ pc' = "routine"
               /\ ip' = ip + 1
               /\ UNCHANGED exc
    ELSE /\ exc' = "Exception"
         /\ pc' = "routine_return"
         /\ UNCHANGED ip

\* ensure_ready_for_flight keeping nothing from one event to the next
ready_now(gps, home, g, h) == g /\ h

\* ensure_ready_for_flight, lines 569-573: the test made after the event
\* (g, h) was latched into the flags (gps, home)
ready(gps, home, g, h) == (gps \/ g) /\ (home \/ h)

\* ensure_ready_for_flight, lines 568-579: one event of
\* drone.telemetry.health(); clock is time.time() - start when it is handled
ensure_ready_for_flight ==
    /\ pc = "ensure_ready_for_flight"
    /\ stream = "live"
    /\ \/ \E g, h \in BOOLEAN :
             /\ gps_ok' = (gps_ok \/ g)
             /\ home_ok' = (home_ok \/ h)
             /\ IF ready(gps_ok, home_ok, g, h)
                THEN \* return True, whatever the time is (line 573 comes
                     \* before the test of the time, line 576)
                     /\ preflight_result(TRUE)
                     /\ clock' = 0
                     /\ faults' = faults
                            \cup (IF clock > PreflightTicks
                                  THEN {"health_late"} ELSE {})
                            \cup (IF g /\ h THEN {} ELSE {"health_split"})
                ELSE IF clock > PreflightTicks
                THEN \* return False
                     /\ preflight_result(FALSE)
                     /\ faults' = faults \cup {"preflight_timeout"}
                     /\ clock' = 0
                ELSE \* sleep(1), next event
                     /\ clock' = clock + 1
                     /\ UNCHANGED <<pc, ip, exc, faults>>
       \/ \* the stream ends (None is returned) or raises
          /\ preflight_result(FALSE)
          /\ faults' = faults \cup {"health_stream"}
          /\ clock' = 0
          /\ UNCHANGED <<gps_ok, home_ok>>
    /\ UNCHANGED <<inputs, pipes, procs, stream, HW_ID, RETURN_CODE, exitCode,
                   connects, caller, pidx, script, routines, calls>>

\* the routine ran past its last operation
routine_end ==
    /\ pc = "routine"
    /\ ip > Len(Routine.ops)
    /\ pc' = IF Routine.try # 0 THEN "routine_finally" ELSE "routine_return"
    /\ UNCHANGED <<inputs, pipes, procs, waits, HW_ID, RETURN_CODE, exitCode, exc,
                   connects, cursor, routines, calls, faults>>

\* update_code, lines 843-847: LED calls of the except clause, after fail()
routine_except ==
    /\ pc = "routine_except"
    /\ pc' = "routine_finally"
    /\ \/ UNCHANGED <<exc, faults>>
       \/ exc' = "Exception" /\ faults' = faults \cup {"led"}
    /\ UNCHANGED <<inputs, pipes, procs, waits, HW_ID, RETURN_CODE, exitCode,
                   connects, cursor, routines, calls>>

\* finally: led_controller.turn_off() (lines 553, 849, 901); when it raises,
\* its error replaces the one in flight
routine_finally ==
    /\ pc = "routine_finally"
    /\ pc' = "routine_return"
    /\ \/ UNCHANGED <<exc, faults>>
       \/ exc' = "Exception" /\ faults' = faults \cup {"led"}
    /\ UNCHANGED <<inputs, pipes, procs, waits, HW_ID, RETURN_CODE, exitCode,
                   connects, cursor, routines, calls>>

\* safe_action that takes only an ActionError for a failure
safe_action_missing_generic_clause(e) ==
    CASE e = "none" -> TRUE
      [] e = "ActionError" -> FALSE
      [] e = "Exception" -> TRUE

\* safe_action, lines 437-446: True when func returned, False when it raised
safe_action(e) ==
    CASE e = "none" -> TRUE
      [] e = "ActionError" -> FALSE
      [] e = "Exception" -> FALSE

\* the routine hands control back: update_code to perform_action (line 321),
\* every other routine to safe_action and `if not ...: fail()`
routine_return ==
    /\ pc = "routine_return"
    /\ IF action = "update_code"
       THEN /\ pc' = IF exc = "none" THEN "returned" ELSE "raised"
            /\ UNCHANGED <<exc, RETURN_CODE>>
       ELSE /\ RETURN_CODE' = IF safe_action(exc) THEN RETURN_CODE ELSE fail
            /\ exc' = "none"
            /\ pc' = "finally"
    /\ UNCHANGED <<inputs, pipes, procs, waits, HW_ID, exitCode, connects, cursor,
                   routines, calls, faults>>

\* the bridge process dies by itself; nothing reads its state before the
\* finally clause of perform_action does
BridgeExits ==
    /\ pc = "finally"
    /\ bridge = "live"
    /\ bridge' = "crashed"
    /\ UNCHANGED <<inputs, pipes, foreign, signals, listening, spawned, teardowns,
                   waits, pc, HW_ID, RETURN_CODE, exitCode, exc, connects,
                   cursor, routines, calls, faults>>

\* perform_action, lines 411-413: finally stop_mavsdk_server(mavsdk_server)
finally_stop ==
    /\ pc = "finally"
    /\ bridge' \in stop_mavsdk_server(bridge)
    /\ teardowns' = teardowns + 1
    /\ pc' = "returned"
    /\ UNCHANGED <<inputs, pipes, foreign, signals, listening, spawned, waits, HW_ID,
                   RETURN_CODE, exitCode, exc, connects, cursor, routines,
                   calls, faults>>

\* ------------------------------------------------------------------- main

\* __main__ without sys.exit(RETURN_CODE): the status is that of the
\* SystemExit in flight, 0 without one
exit_status_of_exception(flag, e) == IF e = "SystemExit" THEN 1 ELSE 0

\* the status the interpreter exits with: sys.exit(RETURN_CODE) in the
\* finally clause (line 939) replaces a SystemExit in flight
exit_status(flag, e) == flag

\* __main__, lines 924-939
main ==
    /\ pc \in {"returned", "raised"}
    /\ LET flag == IF pc = "raised" /\ exc \in {"Exception", "ActionError"}
                   THEN fail
                   ELSE RETURN_CODE
       IN /\ RETURN_CODE' = flag
          /\ exitCode' = Some(exit_status(flag, exc))
    /\ pc' = "exit"
    /\ UNCHANGED <<inputs, pipes, procs, waits, HW_ID, exc, connects, cursor,
                   routines, calls, faults>>

Next ==
    \/ perform_action
    \/ start_mavsdk_server_evict
    \/ find_mavsdk_server
    \/ Popen
    \/ BridgeListens
    \/ BridgeExits
    \/ wait_for_port
    \/ connect
    \/ Tick
    \/ StreamHangs
    \/ wait_for_drone_connection
    \/ set_parameters
    \/ set_parameters_return
    \/ enter_update_code
    \/ dispatch
    \/ status_sink
    \/ remote_call
    \/ undefined_name
    \/ check_hw_id
    \/ isfile
    \/ call_set_parameters
    \/ reboot_system
    \/ run_script
    \/ enter_ensure_ready_for_flight
    \/ ensure_ready_for_flight
    \/ routine_end
    \/ routine_except
    \/ routine_finally
    \/ routine_return
    \/ finally_stop
    \/ main

Spec == Init /\ [][Next]_vars

\* what the run itself does; the steps of the outside world (BridgeListens,
\* BridgeExits, Tick, StreamHangs) are not forced to happen
Program ==
    \/ perform_action
    \/ start_mavsdk_server_evict
    \/ find_mavsdk_server
    \/ Popen
    \/ wait_for_port
    \/ connect
    \/ wait_for_drone_connection
    \/ set_parameters
    \/ set_parameters_return
    \/ enter_update_code
    \/ dispatch
    \/ status_sink
    \/ remote_call
    \/ undefined_name
    \/ check_hw_id
    \/ isfile
    \/ call_set_parameters
    \/ reboot_system
    \/ run_script
    \/ enter_ensure_ready_for_flight
    \/ ensure_ready_for_flight
    \/ routine_end
    \/ routine_except
    \/ routine_finally
    \/ routine_return
    \/ finally_stop
    \/ main

\* the event loop runs the coroutine whenever it can continue
FairSpec == Init /\ [][Next]_vars /\ WF_vars(Program)


\* ------------------------------------------- the bridge's output pipes

\* everything but the pipes: the run of perform_action and its surroundings
program == <<inputs, procs, waits, cursor, pc, HW_ID, RETURN_CODE, exitCode,
             exc, connects, routines, calls, faults>>

\* lines a pipe holds before a write to it blocks
PipeCap == 2

\* lines the bridge writes in the runs explored
MaxLines == 6

\* the bridge appends a line to its stdout pipe (Popen, line 285:
\* stdout=subprocess.PIPE); the write blocks while the pipe is full
BridgeWritesStdout ==
    /\ ~eof
    /\ written < MaxLines
    /\ outBuf < PipeCap
    /\ outBuf' = outBuf + 1
    /\ written' = written + 1
    /\ UNCHANGED <<errBuf, eof, drain, program>>

\* the bridge appends a line to its stderr pipe (Popen, line 286)
BridgeWritesStderr ==
    /\ ~eof
    /\ written < MaxLines
    /\ errBuf < PipeCap
    /\ errBuf' = errBuf + 1
    /\ written' = written + 1
    /\ UNCHANGED <<outBuf, eof, drain, program>>

\* the bridge process ends: both pipes reach end-of-stream once empty
BridgeClosesPipes ==
    /\ ~eof
    /\ eof' = TRUE
    /\ UNCHANGED <<outBuf, errBuf, drain, written, program>>

\* log_mavsdk_output, lines 140-147: the first loop reads stdout until
\* end-of-stream (or until readline raises), and only then falls through
log_mavsdk_output_stdout ==
    /\ drain = "stdout"
    /\ \/ /\ outBuf > 0
          /\ outBuf' = outBuf - 1
          /\ UNCHANGED drain
       \/ /\ outBuf = 0
          /\ eof
          /\ drain' = "stderr"
          /\ UNCHANGED outBuf
       \/ \* readline raises: line 146 logs it and the loop is over
          /\ drain' = "stderr"
          /\ UNCHANGED outBuf
    /\ UNCHANGED <<errBuf, eof, written, program>>

\* log_mavsdk_output, lines 149-156: the second loop reads stderr
log_mavsdk_output_stderr ==
    /\ drain = "stderr"
    /\ \/ /\ errBuf > 0
          /\ errBuf' = errBuf - 1
          /\ UNCHANGED drain
       \/ /\ errBuf = 0
          /\ eof
          /\ drain' = "done"
          /\ UNCHANGED errBuf
       \/ \* readline raises: line 155 logs it and the task is over
          /\ drain' = "done"
          /\ UNCHANGED errBuf
    /\ UNCHANGED <<outBuf, eof, written, program>>

\* the state start_mavsdk_server is in once line 289 created the one
\* log_mavsdk_output task for the process Popen returned
LogTaskCreated ==
    /\ action = "land"
    /\ hwidFiles = << <<"1">> >>
    /\ config = [present |-> TRUE, rows |-> << <<"3">>, <<"1">> >>]
    /\ parameters = <<>>
    /\ common = [present |-> FALSE, rows |-> <<>>]
    /\ reboot_after = FALSE
    /\ branch = FALSE
    /\ pc = "wait_for_port"
    /\ HW_ID = Some(1)
    /\ RETURN_CODE = 0
    /\ exitCode = None
    /\ exc = "none"
    /\ foreign = "absent"
    /\ signals = <<>>
    /\ bridge = "live"
    /\ listening = FALSE
    /\ spawned = 1
    /\ teardowns = 0
    /\ connects = 0
    /\ stream = "live"
    /\ clock = 0
    /\ caller = "perform_action"
    /\ pidx = 1
    /\ ip = 1
    /\ script = [rc |-> "none", command |-> <<>>]
    /\ gps_ok = FALSE
    /\ home_ok = FALSE
    /\ routines = 0
    /\ calls = <<>>
    /\ faults = {}
    /\ outBuf = 0
    /\ errBuf = 0
    /\ eof = FALSE
    /\ drain = "stdout"
    /\ written = 0

\* the bridge and the log task running side by side; the run itself is
\* held where it is, which leaves the task every chance to read
LogNext ==
    \/ BridgeWritesStdout
    \/ BridgeWritesStderr
    \/ BridgeClosesPipes
    \/ log_mavsdk_output_stdout
    \/ log_mavsdk_output_stderr

LogSpec == LogTaskCreated /\ [][LogNext]_vars


\* ------------------------------------------- set_parameters on its own

\* entries of a batch in the runs of set_parameters explored on their own
MaxBatch == 2

\* parameter names inside PARAM_TYPES (of either type) and outside it
ParamNames ==
    {"COM_RCL_EXCEPT", "GF_ACTION", "GF_MAX_HOR_DIST", "GF_MAX_VER_DIST",
     "MPC_XY_CRUISE", "MAV_SYS_ID"}

\* raw values: with and without a decimal point, accepted and refused by
\* int() and by float()
ParamRaws ==
    {<<"7">>, <<"-", "7">>, <<"3", ".", "5">>, <<"7", ".">>, <<".">>,
     <<"1", "e", "5">>, <<"x">>, <<>>}

ParamEntries == [name : ParamNames, raw : ParamRaws]

\* perform_action at line 369, connected, about to apply the CLI batch
BatchGiven ==
    /\ action = "hold"
    /\ hwidFiles = << <<"1">> >>
    /\ config = [present |-> TRUE, rows |-> << <<"3">>, <<"1">> >>]
    /\ parameters \in {b \in UNION {[1..k -> ParamEntries] : k \in 0..MaxBatch} :
                          DistinctNames(b)}
    /\ common = [present |-> FALSE, rows |-> <<>>]
    /\ reboot_after = FALSE
    /\ branch = FALSE
    /\ pc = "set_parameters"
    /\ HW_ID = Some(1)
    /\ RETURN_CODE = 0
    /\ exitCode = None
    /\ exc = "none"
    /\ foreign = "absent"
    /\ signals = <<>>
    /\ bridge = "live"
    /\ listening = TRUE
    /\ spawned = 1
    /\ teardowns = 0
    /\ connects = 1
    /\ stream = "live"
    /\ clock = 0
    /\ caller = "perform_action"
    /\ pidx = 1
    /\ ip = 1
    /\ script = [rc |-> "none", command |-> <<>>]
    /\ gps_ok = FALSE
    /\ home_ok = FALSE
    /\ routines = 0
    /\ calls = <<>>
    /\ faults = {}
    /\ outBuf = 0
    /\ errBuf = 0
    /\ eof = FALSE
    /\ drain = "stdout"
    /\ written = 0

\* lines 369-370: the loop of set_parameters over the batch, and its return
BatchNext ==
    \/ set_parameters
    \/ set_parameters_return

BatchSpec == BatchGiven /\ [][BatchNext]_vars


\* ------------------------------------------------------------------ claims

Exited == pc = "exit"

IsRoutineCall(c) == c.by = action
IsCliSetCall(c) == c.by = "cli"
IsCommonSetCall(c) == c.by = "common"

\* remote calls issued by the action routine itself
RoutineCalls == SelectSeq(calls, IsRoutineCall)

\* set calls issued by set_parameters for the batch it is working on
BatchSetCalls ==
    IF caller = "perform_action" THEN SelectSeq(calls, IsCliSetCall)
    ELSE SelectSeq(calls, IsCommonSetCall)

\* nothing was done to any process on the port, to the stub or to the drone
NoBridgeInteraction ==
    /\ signals = <<>>
    /\ spawned = 0
    /\ bridge = "none"
    /\ connects = 0
    /\ calls = <<>>

IdentityUnresolved == read_hw_id(hwidFiles) = None

ConfigUnresolved == read_config(config, read_hw_id(hwidFiles)) = None

\* C1 (as claimed): a run that spawned the bridge process has called
\* stop_mavsdk_server exactly once by the time it exits.
C1_TeardownExactlyOnce ==
    (Exited /\ spawned > 0) => teardowns = 1

\* C2 (as claimed): when the run has exited, the bridge process it spawned is
\* not alive any more.
C2_NoBridgeLeak ==
    Exited => bridge # "live"

\* C3 (as claimed): a run with an unrecognized action identifier never touches
\* the bridge (no eviction, no spawn, no connect, no remote call) and exits
\* with the failure flag set.
C3_UnrecognizedNoBridge ==
    action \notin RecognizedActions =>
        /\ NoBridgeInteraction
        /\ Exited => RETURN_CODE = 1

\* C4: for every action but update_code and init_sysid, an unresolved identity
\* or config means no bridge interaction in any state of the run, and exit
\* code 1 with the failure flag set.
C4_UnresolvedAborts ==
    (action \notin {"update_code", "init_sysid"}
       /\ (IdentityUnresolved \/ ConfigUnresolved)) =>
        /\ NoBridgeInteraction
        /\ Exited => (RETURN_CODE = 1 /\ exitCode = Some(1))

C4_Witness ==
    /\ Exited
    /\ action = "hold"
    /\ hwidFiles = <<>>
    /\ RETURN_CODE = 1

\* C5 (as claimed): init_sysid with a missing or invalid identity aborts
\* before the bridge is launched, with the failure flag set.
C5_InitSysidAbortsBeforeLaunch ==
    (action = "init_sysid" /\ IdentityUnresolved) =>
        /\ spawned = 0
        /\ Exited => RETURN_CODE = 1

\* C5 (amended): init_sysid with a missing or invalid identity is terminal
\* for the run, though found only inside the routine: the routine issues none
\* of its remote calls (set_param_int MAV_SYS_ID, reboot) and the run exits
\* with the failure flag set and code 1; the bridge may have been launched.
C5_InitSysidNoIdentity ==
    (action = "init_sysid" /\ IdentityUnresolved) =>
        /\ RoutineCalls = <<>>
        /\ Exited => (RETURN_CODE = 1 /\ exitCode = Some(1))

C5_Witness ==
    /\ Exited
    /\ action = "init_sysid"
    /\ IdentityUnresolved
    /\ spawned = 1
    /\ connects = 1
    /\ routines = 1

\* C6: once the bridge did not listen within the listen timeout, the failure
\* flag is set, connect is never invoked, no remote call is ever issued, and
\* the run exits with code 1.
C6_ListenTimeoutNoConnect ==
    "listen_timeout" \in faults =>
        /\ RETURN_CODE = 1
        /\ connects = 0
        /\ calls = <<>>
        /\ pc \in {"raised", "exit"}
        /\ Exited => exitCode = Some(1)

C6_Witness ==
    /\ Exited
    /\ "listen_timeout" \in faults
    /\ action = "land"
    /\ ~listening

\* C7: the failure flag starts clear, every write sets it, nothing clears it,
\* and the exit status is the flag (0 when clear, 1 when set), also after a
\* sys.exit(1) inside start_mavsdk_server or an exception reaching __main__.
C7_FailureFlag ==
    /\ RETURN_CODE = 0
    /\ [][RETURN_CODE' # RETURN_CODE => RETURN_CODE' = 1]_vars
    /\ [][RETURN_CODE = 1 => RETURN_CODE' = 1]_vars
    /\ [](RETURN_CODE \in {0, 1})
    /\ [](Exited <=> exitCode # None)
    /\ [](Exited => exitCode = Some(RETURN_CODE))

C7_Witness ==
    /\ Exited
    /\ exc = "SystemExit"
    /\ RETURN_CODE = 1
    /\ exitCode = Some(1)

RECURSIVE ParsedSetCalls(_, _, _)
\* the set calls of the first n entries of a batch: one for each entry whose
\* raw value parses as its resolved type, none for the others
ParsedSetCalls(batch, n, tag) ==
    IF n = 0 THEN <<>>
    ELSE LET e == batch[n]
             t == parse_param_value(e.raw, e.name)
             rest == ParsedSetCalls(batch, n - 1, tag)
         IN IF t = "ValueError" THEN rest
            ELSE Append(rest, SetCall(t, e.name, tag))

\* C8 (as claimed): when set_parameters has gone through a batch, it has
\* issued as many remote set calls as the batch has entries.
C8_SetCallsEqualEntries ==
    (pc = "set_parameters" /\ pidx > Len(CurBatch)) =>
        Len(BatchSetCalls) = Len(CurBatch)

\* C8 (amended): set_parameters goes through every entry of the batch whatever
\* fails, and issues one remote set call for each entry whose raw value parses
\* as its resolved type, in order; an entry that does not parse gets no remote
\* call and sets the failure flag.
C8_SetCallsEqualParsedEntries ==
    pc = "set_parameters" =>
        /\ pidx <= Len(CurBatch) + 1
        /\ BatchSetCalls = ParsedSetCalls(CurBatch, pidx - 1, BatchTag)
        /\ Len(BatchSetCalls) < pidx - 1 => RETURN_CODE = 1

C8_Witness ==
    /\ pc = "set_parameters"
    /\ Len(CurBatch) = 2
    /\ pidx = 3
    /\ parse_param_value(CurBatch[1].raw, CurBatch[1].name) = "ValueError"
    /\ Len(BatchSetCalls) = 1
    /\ "param_remote" \in faults

\* C9 (as claimed): every run reaches process exit, whatever the outside does.
C9_RunEnds ==
    <>Exited

\* the remote calls a routine issues when it runs to its end
IsCallOp(o) == o.k = "call"

RECURSIVE CallNames(_)
CallNames(ops) ==
    IF ops = <<>> THEN <<>> ELSE <<Head(ops).name>> \o CallNames(Tail(ops))

RECURSIVE CallOps(_)
CallOps(cs) ==
    IF cs = <<>> THEN <<>> ELSE <<Head(cs).op>> \o CallOps(Tail(cs))

\* C10 (as claimed): when LED calls raising are all that went wrong in a run
\* that entered its action routine, the failure flag is clear at exit and the
\* routine has issued all of its remote calls.
C10_StatusSinkNonCritical ==
    (Exited /\ routines = 1 /\ faults = {"led"}) =>
        /\ RETURN_CODE = 0
        /\ CallOps(RoutineCalls) = CallNames(SelectSeq(Routine.ops, IsCallOp))

\* C11: each of the bridge's two output streams has a task reading it for
\* as long as the bridge runs, so a full stderr pipe is never left unread
\* while the reader waits for stdout to end (and the other way round)
C11_StreamsDrainedIndependently ==
    ~eof =>
        /\ errBuf = PipeCap => drain = "stderr"
        /\ outBuf = PipeCap => drain = "stdout"

\* C12 (as claimed): a run of test that connected and in which nothing the
\* outside does went wrong has issued arm, then disarm, and nothing else, by
\* the time it exits, and exits with code 0.
C12_TestArmsThenDisarms ==
    (Exited /\ action = "test" /\ routines = 1 /\ faults = {}) =>
        /\ CallOps(RoutineCalls) = <<"arm", "disarm">>
        /\ exitCode = Some(0)

PreflightFailed == faults \cap {"preflight_timeout", "health_stream"} # {}

C14_LandHoldsThenLands ==
    (Exited /\ action = "land" /\ parameters = <<>> /\ routines = 1
       /\ "remote" \notin faults) =>
        /\ CallOps(RoutineCalls) = <<"hold", "land">>
        /\ exitCode = Some(0)

\* every entry of the batch has a raw value that parses as its resolved type
AllParse(batch) ==
    \A i \in 1..Len(batch) :
        parse_param_value(batch[i].raw, batch[i].name) # "ValueError"

IsRebootCall(c) == IsRoutineCall(c) /\ c.op = "reboot"

\* C15 (as claimed): a run of apply_common_params over a file of n well-formed
\* entries, some of which failed remotely, has attempted a set call for all
\* n entries and exits with code 1, and has issued the flight-controller
\* reboot if and only if reboot_after was requested.
C15_CommonParamsBestEffort ==
    (Exited /\ action = "apply_common_params" /\ routines = 1
       /\ parameters = <<>> /\ common.present /\ AllParse(common.rows)
       /\ "param_remote" \in faults) =>
        /\ Len(SelectSeq(calls, IsCommonSetCall)) = Len(common.rows)
        /\ exitCode = Some(1)
        /\ (SelectSeq(calls, IsRebootCall) # <<>>) <=> reboot_after

\* C16 (as claimed): a foreign process bound to the control port when the
\* launch begins has exited (terminated, killed or gone) before the new
\* bridge is spawned, so the foreign process and the bridge of this run are
\* never alive at the same time.
C16_TakeoverPrecedesLaunch ==
    /\ spawned > 0 => foreign # "live"
    /\ ~(foreign = "live" /\ bridge = "live")

\* C17: when no process is bound to the control port, the eviction step of
\* the launch does nothing: the run goes on to locate the executable, no
\* error is raised, no signal is sent, and the processes and the failure
\* flag are as they were.
C17_EvictionNoOpWhenAbsent ==
    [][(pc = "start_mavsdk_server" /\ foreign = "absent") =>
          /\ pc' = "find_mavsdk_server"
          /\ UNCHANGED <<foreign, signals, bridge, spawned, RETURN_CODE, exc,
                         faults>>]_vars

C17_Witness ==
    /\ pc = "find_mavsdk_server"
    /\ foreign = "absent"
    /\ signals = <<>>
    /\ exc = "none"
    /\ RETURN_CODE = 0

ScriptFailed == script.rc \in {"nonzero", "raised"}

\* C18 (as claimed): a run of update_code never resolves the identity, never
\* evicts or spawns a bridge, never connects and never issues a remote call;
\* what it runs is the update script, with the branch argument when one was
\* given; and at exit the failure flag is set if and only if the script
\* exited nonzero or its invocation raised.
C18_UpdateCodeBypass ==
    action = "update_code" =>
        /\ HW_ID = None
        /\ NoBridgeInteraction
        /\ teardowns = 0
        /\ script.rc # "none" => script.command = command(branch)
        /\ Exited => (RETURN_CODE = 1 <=> ScriptFailed)

\* C19: when an action routine dispatched through safe_action raises, be it
\* an ActionError or any other exception, the wrapper returns False: the
\* failure flag is set, the error is not passed on, the run goes to the
\* teardown without a further routine or remote call; the step is the same
\* for the two kinds of error. No run enters a second routine, and a run
\* that entered one exits torn down with no error in flight.
C19_UniformFailureCapture ==
    /\ [][(pc = "routine_return" /\ action # "update_code" /\ exc # "none") =>
             /\ RETURN_CODE' = 1
             /\ exc' = "none"
             /\ pc' = "finally"
             /\ UNCHANGED <<routines, calls, teardowns, bridge>>]_vars
    /\ [](routines <= 1)
    /\ []((Exited /\ routines = 1) => (teardowns = 1 /\ exc = "none"))

C19_Witness ==
    /\ pc = "finally"
    /\ action = "hold"
    /\ routines = 1
    /\ faults = {"remote"}
    /\ RETURN_CODE = 1
    /\ exc = "none"
    /\ teardowns = 0

ConnectionFailed == faults \cap {"connect", "conn_timeout", "conn_end"} # {}

TableOrPoint(raw, name) ==
    IF name \in {"COM_RCL_EXCEPT", "GF_ACTION"} THEN "int"
    ELSE IF name \in {"GF_MAX_HOR_DIST", "GF_MAX_VER_DIST"} THEN "float"
    ELSE IF HasDot(raw) THEN "float"
    ELSE "int"

\* the conversion of the claimed type accepts the raw value
Converts(raw, name) ==
    IF TableOrPoint(raw, name) = "int" THEN IsIntLiteral(raw)
    ELSE IsFloatLiteral(raw)

RECURSIVE TypedSetCalls(_, _)
\* the set calls of the first n entries when each entry is typed on its own
\* by TableOrPoint
TypedSetCalls(batch, n) ==
    IF n = 0 THEN <<>>
    ELSE LET e == batch[n]
             rest == TypedSetCalls(batch, n - 1)
         IN IF Converts(e.raw, e.name)
            THEN Append(rest, [op |-> IF TableOrPoint(e.raw, e.name) = "int"
                                      THEN "set_param_int"
                                      ELSE "set_param_float",
                               name |-> e.name, by |-> "cli"])
            ELSE rest

\* C21: the type of an entry depends on its name and raw value alone: the
\* table's type for a name in the table, whatever the raw value looks like;
\* for any other name float if and only if the raw value has a decimal
\* point, else int. Each entry of a batch is typed by itself: the set calls
\* issued so far are those of the entries gone through, each of the type so
\* determined, none for an entry whose raw value that type does not accept.
C21_TypeResolution ==
    pc \in {"set_parameters", "dispatch"} =>
        calls = TypedSetCalls(parameters, pidx - 1)

C21_Witness ==
    /\ pc = "dispatch"
    /\ Len(parameters) = 2
    /\ parameters[1] = [name |-> "GF_MAX_HOR_DIST", raw |-> <<"7">>]
    /\ parameters[2] = [name |-> "MAV_SYS_ID", raw |-> <<"7">>]
    /\ CallOps(calls) = <<"set_param_float", "set_param_int">>

\* C22 (as claimed): the identity is resolved only when exactly one marker
\* file is found and its base name is an integer; with several markers, a
\* name that is not an integer, or no marker, it stays unresolved.
C22_IdentityFromSingleMarker ==
    HW_ID # None =>
        /\ Len(hwidFiles) = 1
        /\ IsIntLiteral(hwidFiles[1])

\* the phase of the run: 0 resolution, 1 bridge launch, 2 connect, 3 wait
\* for the connected state, 4 CLI parameters, 5 action routine, 6 teardown,
\* 7 back in __main__, 8 exit
Phase ==
    CASE pc = "start" -> 0
      [] pc \in {"start_mavsdk_server", "find_mavsdk_server", "Popen",
                 "wait_for_port"} -> 1
      [] pc = "connect" -> 2
      [] pc = "wait_for_drone_connection" -> 3
      [] pc = "set_parameters" /\ caller = "perform_action" -> 4
      [] pc = "finally" -> 6
      [] pc \in {"returned", "raised"} -> 7
      [] pc = "exit" -> 8
      [] OTHER -> 5

\* C23: the phases of a run come only in the order resolution, bridge
\* launch and listening, connect, connected state observed, CLI parameters,
\* action routine, teardown, exit. The bridge is spawned only after the
\* resolution, connect is invoked only on a listening bridge, the parameters
\* and the routine are entered only from the step that observed the
\* connected state (update_code apart, which goes from the start to its
\* routine), a remote call is issued only in the parameter and routine
\* phases of a connected run that was not torn down, and no run enters more
\* than one routine.
C23_PhaseOrder ==
    /\ [][Phase' >= Phase]_vars
    /\ [][(Phase < 4 /\ Phase' \in {4, 5}) =>
             \/ pc = "wait_for_drone_connection"
             \/ action = "update_code" /\ pc = "start"]_vars
    /\ [][spawned' # spawned => Phase = 1]_vars
    /\ [][connects' # connects => (Phase = 2 /\ listening)]_vars
    /\ [][calls' # calls =>
             /\ Phase \in {4, 5}
             /\ connects = 1
             /\ teardowns = 0
             /\ action # "update_code"]_vars
    /\ [][teardowns > 0 => (calls' = calls /\ routines' = routines)]_vars
    /\ [](routines <= 1)

C23_Witness ==
    /\ Exited
    /\ action = "land"
    /\ Len(parameters) = 1
    /\ Len(SelectSeq(calls, IsCliSetCall)) = 1
    /\ CallOps(RoutineCalls) = <<"hold", "land">>
    /\ routines = 1
    /\ teardowns = 1

IsPrefix(s, t) == Len(s) <= Len(t) /\ s = SubSeq(t, 1, Len(s))

\* C24: in a run of takeoff the remote calls of the routine are, at every
\* moment, a beginning of set_takeoff_altitude, arm, takeoff: each at most
\* once and in no other order. The first is issued only after the preflight
\* wait returned True, and once a call of the routine has failed no further
\* one is issued, so arm follows a set_takeoff_altitude that succeeded and
\* takeoff an arm that succeeded.
C24_TakeoffCallOrder ==
    /\ [](action = "takeoff" =>
             /\ IsPrefix(CallOps(RoutineCalls),
                         <<"set_takeoff_altitude", "arm", "takeoff">>)
             /\ RoutineCalls # <<>> => (gps_ok /\ home_ok /\ ~PreflightFailed))
    /\ [][(action = "takeoff" /\ "remote" \in faults) =>
             RoutineCalls' = RoutineCalls]_vars
    /\ [][(action = "takeoff" /\ pc = "ensure_ready_for_flight") =>
             RoutineCalls' = <<>>]_vars

C24_Witness ==
    /\ Exited
    /\ action = "takeoff"
    /\ CallOps(RoutineCalls) = <<"set_takeoff_altitude", "arm", "takeoff">>
    /\ exitCode = Some(0)

\* C25 (as claimed): once a remote call issued inside the action routine
\* has failed, the routine issues no further remote call (runs without CLI
\* parameters, so that every failed call is one of the routine).
C25_FailStopInRoutine ==
    [][(routines = 1 /\ parameters = <<>>
          /\ faults \cap {"remote", "param_remote"} # {}) =>
          calls' = calls]_vars

\* C25 (amended): once an action call of the routine (hold, land,
\* return_to_launch, arm, disarm, terminate, reboot, set_takeoff_altitude,
\* takeoff, or the set_param_int of init_sysid) has failed, no further
\* remote call is issued in the run, and the failure flag is set when the
\* routine has handed control back. The set calls that apply_common_params
\* issues through set_parameters are outside this: a failed one stops
\* neither the set calls after it nor the reboot.
C25_FailStopOnActionCall ==
    /\ [][(routines = 1 /\ "remote" \in faults) => calls' = calls]_vars
    /\ []((routines = 1 /\ "remote" \in faults
             /\ pc \in {"finally", "returned", "exit"}) => RETURN_CODE = 1)

C25_Witness ==
    /\ Exited
    /\ action = "return_rtl"
    /\ CallOps(RoutineCalls) = <<"hold">>
    /\ faults = {"remote"}
    /\ RETURN_CODE = 1
    /\ teardowns = 1

\* C26: the preflight wait keeps each flag once an event reported it: it
\* never waits on with both flags reported, it returns True exactly on the
\* event that completes the two flags, also when that event does not report
\* both itself, and it does so whatever the elapsed time is, the timeout
\* being looked at only on an event that leaves a flag unreported.
C26_PreflightLatches ==
    /\ [](pc = "ensure_ready_for_flight" => ~(gps_ok /\ home_ok))
    /\ [][(pc = "ensure_ready_for_flight" /\ pc' = pc) =>
             /\ gps_ok => gps_ok'
             /\ home_ok => home_ok']_vars
    /\ [][(pc = "ensure_ready_for_flight" /\ pc' # pc) =>
             (pc' = "routine" <=> (gps_ok' /\ home_ok'))]_vars
    /\ [][(pc = "ensure_ready_for_flight" /\ pc' # pc
             /\ "preflight_timeout" \in faults') =>
               (clock > PreflightTicks /\ ~(gps_ok' /\ home_ok'))]_vars

C26_Witness ==
    /\ action = "takeoff"
    /\ {"health_split", "health_late"} \subseteq faults
    /\ CallOps(RoutineCalls) = <<"set_takeoff_altitude", "arm", "takeoff">>
    /\ gps_ok
    /\ home_ok

ParamFaults == {"param_parse", "param_remote"}

\* markers of outcomes that change neither the flow nor the failure flag
Harmless == {"health_late", "health_split", "dbus_nonzero"}

\* set_parameters set the failure flag for an entry of the CLI batch
CliBatchFailed ==
    /\ action \in RecognizedActions
    /\ \/ action # "apply_common_params" /\ faults \cap ParamFaults # {}
       \/ "param_parse" \in faults /\ ~AllParse(parameters)

\* the CLI batch failed and nothing else did: no other call or wait failed,
\* and the file the action needs (hardware-id marker, common parameters) is
\* there
OnlyParamsFailed ==
    /\ CliBatchFailed
    /\ faults \subseteq (ParamFaults \cup Harmless)
    /\ action = "init_sysid" => HW_ID # None
    /\ action = "apply_common_params" => common.present

RECURSIVE ReachedOps(_)
\* the operations of a routine up to the first one that raises on every run
ReachedOps(ops) ==
    IF ops = <<>> \/ Head(ops).k = "undefined_name" THEN <<>>
    ELSE <<Head(ops)>> \o ReachedOps(Tail(ops))

\* the remote calls the routine of the action issues when nothing fails
ReachedCalls == CallNames(SelectSeq(ReachedOps(Routine.ops), IsCallOp))

\* C27: set_parameters returns to the dispatch whatever it did to the
\* failure flag, and the dispatch enters the routine of the action whatever
\* the flag is; a run in which set_parameters set the flag for an entry of
\* the CLI batch has entered the routine of the requested action, has torn
\* the bridge down once and exits with code 1; when nothing else failed in
\* that run, the routine issued all the remote calls it issues in a run
\* without any failure.
C27_ParamFailureDoesNotStop ==
    /\ [][(pc = "set_parameters" /\ caller = "perform_action" /\ pc' # pc) =>
             pc' = "dispatch"]_vars
    /\ [][(pc = "dispatch" /\ action \in RecognizedActions) =>
             (pc' = "routine" /\ routines' = 1)]_vars
    /\ [](Exited /\ CliBatchFailed =>
             /\ routines = 1
             /\ teardowns = 1
             /\ exitCode = Some(1))
    /\ [](Exited /\ OnlyParamsFailed => CallOps(RoutineCalls) = ReachedCalls)

C27_Witness ==
    /\ Exited
    /\ action = "takeoff"
    /\ OnlyParamsFailed
    /\ CallOps(RoutineCalls) = <<"set_takeoff_altitude", "arm", "takeoff">>
    /\ teardowns = 1
    /\ exitCode = Some(1)

IsDbusReboot(c) == c = DbusReboot

\* C28: a run of reboot_sys never issues the flight-control reboot call and
\* a run of reboot_fc never issues the reboot request to the host; a nonzero
\* exit of that request leaves the failure flag as it was, and a run of
\* reboot_sys in which nothing else failed exits with code 0 after it.
C28_RebootFlagsGateEachPath ==
    /\ [](action = "reboot_sys" => SelectSeq(calls, IsRebootCall) = <<>>)
    /\ [](action = "reboot_fc" =>
             /\ SelectSeq(calls, IsDbusReboot) = <<>>
             /\ faults \cap {"dbus_nonzero", "dbus_raise"} = {})
    /\ [][("dbus_nonzero" \notin faults /\ "dbus_nonzero" \in faults') =>
             /\ action = "reboot_sys"
             /\ RETURN_CODE' = RETURN_CODE
             /\ calls' = Append(calls, DbusReboot)]_vars
    /\ [](Exited /\ action = "reboot_sys" /\ faults = {"dbus_nonzero"} =>
             exitCode = Some(0))

C28_Witness ==
    /\ Exited
    /\ action = "reboot_sys"
    /\ faults = {"dbus_nonzero"}
    /\ calls = <<DbusReboot>>
    /\ RETURN_CODE = 0
    /\ exitCode = Some(0)


====
